---- MODULE Spec2Model ----
(***************************************************************************)
(* Model of the dogbot web front-end: the Guilds view                      *)
(* (web/src/views/Guilds.js) and the Notice styled block                   *)
(* (web/src/components/Notice.js).                                         *)
(*                                                                         *)
(* JavaScript values are tagged records, so that null, undefined, arrays,  *)
(* strings and other objects stay distinguishable and the loose and strict *)
(* comparisons of the source can be modelled as the language defines them. *)
(***************************************************************************)
EXTENDS Integers, Sequences, FiniteSets, TLC

VARIABLES lifecycle, guilds, fetch, fetchCount, response, content, renders,
          updates, notice

vars == <<lifecycle, guilds, fetch, fetchCount, response, content, renders,
          updates, notice>>

guildsVars == <<lifecycle, guilds, fetch, fetchCount, response, content,
                renders, updates>>

----------------------------------------------------------------------------
(* Bounds *)

\* longest guild list the API answers with
MaxGuilds == 2
\* number of distinct guild ids
NumIds == 2
\* cap on the number of render() calls that are counted
MaxRenders == 3

----------------------------------------------------------------------------
(* JavaScript values *)

Null == [t |-> "null"]
Undefined == [t |-> "undefined"]
Str(s) == [t |-> "string", v |-> s]
Num(n) == [t |-> "number", v |-> n]
Arr(s) == [t |-> "array", v |-> s]
\* a non-array object, e.g. a JSON body {} : it has neither length nor map
Obj == [t |-> "object"]
\* a function object, e.g. a member inherited from Object.prototype
Fun == [t |-> "function"]
\* the result of an evaluation that threw a TypeError
TypeError == [t |-> "TypeError"]

\* x == null : true of null and of undefined
LooseEqNull(x) == x.t \in {"null", "undefined"}

\* x !== 0
StrictNeqZero(x) == ~(x.t = "number" /\ x.v = 0)

\* x.length
lengthOf(x) ==
  IF x.t \in {"array", "string"} THEN Num(Len(x.v)) ELSE Undefined

\* the property key a value is coerced to in obj[value]
KeyOf(x) ==
  CASE x.t = "string" -> x.v
    [] x.t = "null" -> "null"
    [] x.t = "undefined" -> "undefined"
    [] OTHER -> "[object]"

\* x[i] for a 0-based index i : a TypeError on null and undefined
Index(x, i) ==
  CASE x.t \in {"null", "undefined"} -> TypeError
    [] x.t = "array" -> IF i < Len(x.v) THEN x.v[i + 1] ELSE Undefined
    [] OTHER -> Undefined

----------------------------------------------------------------------------
(* Notice.js *)

MOODS ==
  [default |-> <<"hsl(220, 100%, 85%)", "hsl(220, 100%, 95%)">>,
   danger  |-> <<"hsl(0, 100%, 85%)", "hsl(0, 100%, 95%)">>,
   success |-> <<"hsl(120, 100%, 75%)", "hsl(120, 100%, 95%)">>]

\* keys every object literal inherits from Object.prototype (the ones modelled)
ObjectPrototypeKeys == {"constructor", "toString"}

\* MOODS[mood] : own keys first, then the prototype chain, else undefined
MoodsLookup(mood) ==
  LET k == KeyOf(mood) IN
  IF k \in DOMAIN MOODS
    THEN Arr(<<Str(MOODS[k][1]), Str(MOODS[k][2])>>)
    ELSE IF k \in ObjectPrototypeKeys THEN Fun ELSE Undefined

\* props of a Notice element: the mood prop is absent or given
Absent == [given |-> FALSE]
Given(v) == [given |-> TRUE, mood |-> v]

\* variant: a mood that is not a key of MOODS falls back to 'default'
MoodOfGuarded(props) ==
  IF props.given /\ KeyOf(props.mood) \in DOMAIN MOODS
    THEN props.mood ELSE Str("default")

\* ({ mood = 'default' }) : the default applies to an absent or undefined
\* property only
MoodOf(props) ==
  IF props.given /\ props.mood # Undefined THEN props.mood ELSE Str("default")

\* variant: the border takes the second element of the pair
borderSecond(props) == Index(MoodsLookup(MoodOf(props)), 1)

\* ${({ mood = 'default' }) => MOODS[mood][0]}
border(props) == Index(MoodsLookup(MoodOf(props)), 0)

\* ${({ mood = 'default' }) => MOODS[mood][1]}
background(props) == Index(MoodsLookup(MoodOf(props)), 1)

\* the style of a rendered Notice: the two interpolations are evaluated in
\* template order, and a throw in either one fails the render
Notice(props) ==
  LET b == border(props)
      g == background(props) IN
  IF b = TypeError \/ g = TypeError
    THEN [status |-> "threw", props |-> props,
          border |-> Undefined, background |-> Undefined]
    ELSE [status |-> "styled", props |-> props,
          border |-> b, background |-> g]

NoNotice ==
  [status |-> "none", props |-> Absent,
   border |-> Undefined, background |-> Undefined]

MoodValues ==
  {Undefined, Null} \cup
  {Str(s) : s \in {"default", "danger", "success", "warning", "constructor"}}

NoticeProps == {Absent} \cup {Given(v) : v \in MoodValues}

----------------------------------------------------------------------------
(* Guilds.js *)

GuildIds == {ToString(i) : i \in 1..NumIds}

Guild(id) == [id |-> id]

RECURSIVE SeqsUpTo(_, _)
SeqsUpTo(S, n) ==
  IF n = 0 THEN {<<>>}
  ELSE LET shorter == SeqsUpTo(S, n - 1) IN
       shorter \cup {Append(s, x) : s \in shorter, x \in S}

GuildLists == SeqsUpTo({Guild(id) : id \in GuildIds}, MaxGuilds)

\* values API.get('/api/guilds') can resolve to
Responses == {Arr(l) : l \in GuildLists} \cup {Null, Undefined, Obj}

\* variant: the state starts with an empty list
state0Empty == [guilds |-> Arr(<<>>)]

\* state = { guilds: null }
state0 == [guilds |-> Null]

NoContent == [kind |-> "none", text |-> "", items |-> <<>>]

\* <li key={guild.id}><Link to={`/guild/${guild.id}`}>...</Link></li>
guildNode(guild) ==
  [key |-> guild.id, to |-> "/guild/" \o guild.id, guild |-> guild]

\* variant: every node is built from the first guild
guildNodesFirst(list) == [i \in 1..Len(list) |-> guildNode(list[1])]

\* guilds.map((guild) => ...)
guildNodes(list) == [i \in 1..Len(list) |-> guildNode(list[i])]

\* variant: the length test is missing, an empty array renders as a list
renderNoEmptyCase(g) ==
  IF LooseEqNull(g)
    THEN [kind |-> "loading", text |-> "Loading servers...", items |-> <<>>]
  ELSE IF g.t = "array"
    THEN [kind |-> "list",
          text |-> "Click on a server below to edit its configuration:",
          items |-> guildNodes(g.v)]
    ELSE [kind |-> "threw", text |-> "", items |-> <<>>]

\* render() : the content of <div id="guilds">
render(g) ==
  IF LooseEqNull(g)
    THEN [kind |-> "loading", text |-> "Loading servers...", items |-> <<>>]
  ELSE IF StrictNeqZero(lengthOf(g))
    THEN IF g.t = "array"
           THEN [kind |-> "list",
                 text |-> "Click on a server below to edit its configuration:",
                 items |-> guildNodes(g.v)]
           \* guilds.map is not a function
           ELSE [kind |-> "threw", text |-> "", items |-> <<>>]
  ELSE [kind |-> "empty", text |-> "No servers.", items |-> <<>>]

CountRender == IF renders < MaxRenders THEN renders + 1 ELSE renders

Init ==
  /\ lifecycle = "constructed"
  /\ guilds = state0.guilds
  /\ fetch = "none"
  /\ fetchCount = 0
  /\ response = Undefined
  /\ content = NoContent
  /\ renders = 0
  /\ updates = <<>>
  /\ notice = NoNotice

\* React mounts the view: the first render(), then componentDidMount(), which
\* runs up to its await: API.get('/api/guilds') is issued
Mount ==
  /\ lifecycle = "constructed"
  /\ lifecycle' = "mounted"
  /\ content' = render(guilds)
  /\ renders' = CountRender
  /\ fetch' = "pending"
  /\ fetchCount' = fetchCount + 1
  /\ UNCHANGED <<guilds, response, updates, notice>>

\* variant: the completion handler skips setState on an unmounted instance
FetchResolvedIfMounted(v) ==
  /\ fetch = "pending"
  /\ fetch' = "resolved"
  /\ response' = v
  /\ IF lifecycle = "mounted"
       THEN /\ updates' = Append(updates, [arg |-> v, live |-> TRUE])
            /\ guilds' = v
            /\ renders' = CountRender
            /\ IF render(v).kind = "threw"
                 THEN lifecycle' = "unmounted" /\ content' = NoContent
                 ELSE lifecycle' = lifecycle /\ content' = render(v)
       ELSE UNCHANGED <<updates, guilds, renders, lifecycle, content>>
  /\ UNCHANGED <<fetchCount, notice>>

\* the awaited promise resolves with v: this.setState({ guilds }) follows.
\* React applies the update and renders again while the instance is mounted;
\* on an unmounted instance the call is made and React drops the update.
\* A render that throws makes React unmount the tree.
FetchResolved(v) ==
  /\ fetch = "pending"
  /\ fetch' = "resolved"
  /\ response' = v
  /\ updates' = Append(updates, [arg |-> v, live |-> lifecycle = "mounted"])
  /\ IF lifecycle = "mounted"
       THEN /\ guilds' = v
            /\ renders' = CountRender
            /\ IF render(v).kind = "threw"
                 THEN lifecycle' = "unmounted" /\ content' = NoContent
                 ELSE lifecycle' = lifecycle /\ content' = render(v)
       ELSE UNCHANGED <<guilds, renders, lifecycle, content>>
  /\ UNCHANGED <<fetchCount, notice>>

\* variant: a rejection issues the request again
FetchRejectedRetry ==
  /\ fetch = "pending"
  /\ fetch' = "pending"
  /\ fetchCount' = fetchCount + 1
  /\ UNCHANGED <<lifecycle, guilds, response, content, renders, updates,
                 notice>>

\* variant: a rejection is caught and stores an empty list
FetchRejectedFallback ==
  /\ fetch = "pending"
  /\ fetch' = "rejected"
  /\ guilds' = IF lifecycle = "mounted" THEN Arr(<<>>) ELSE guilds
  /\ content' = IF lifecycle = "mounted"
                  THEN [kind |-> "empty", text |-> "No servers.",
                        items |-> <<>>]
                  ELSE content
  /\ UNCHANGED <<lifecycle, fetchCount, response, renders, updates, notice>>

\* the awaited promise rejects: componentDidMount's own promise rejects,
\* nothing catches it and setState is not reached
FetchRejected ==
  /\ fetch = "pending"
  /\ fetch' = "rejected"
  /\ UNCHANGED <<lifecycle, guilds, fetchCount, response, content, renders,
                 updates, notice>>

\* a parent update makes React call render() again on the mounted view
ReRender ==
  /\ lifecycle = "mounted"
  /\ renders < MaxRenders
  /\ renders' = CountRender
  /\ content' = render(guilds)
  /\ UNCHANGED <<lifecycle, guilds, fetch, fetchCount, response, updates,
                 notice>>

\* variant: unmounting resets the state to its initial value
UnmountReset ==
  /\ lifecycle = "mounted"
  /\ lifecycle' = "unmounted"
  /\ content' = NoContent
  /\ guilds' = Null
  /\ UNCHANGED <<fetch, fetchCount, response, renders, updates, notice>>

\* React unmounts the view; the class defines no componentWillUnmount, so the
\* pending fetch is left alone
Unmount ==
  /\ lifecycle = "mounted"
  /\ lifecycle' = "unmounted"
  /\ content' = NoContent
  /\ UNCHANGED <<guilds, fetch, fetchCount, response, renders, updates,
                 notice>>

\* a Notice element is rendered with the given props
RenderNotice(props) ==
  /\ notice' = Notice(props)
  /\ UNCHANGED guildsVars

Next ==
  \/ Mount
  \/ \E v \in Responses : FetchResolved(v)
  \/ FetchRejected
  \/ ReRender
  \/ Unmount
  \/ \E props \in NoticeProps : RenderNotice(props)

Spec == Init /\ [][Next]_vars

TypeOK ==
  /\ lifecycle \in {"constructed", "mounted", "unmounted"}
  /\ guilds \in Responses
  /\ fetch \in {"none", "pending", "resolved", "rejected"}
  /\ fetchCount \in 0..1
  /\ response \in Responses
  /\ content.kind \in {"none", "loading", "list", "empty"}
  /\ renders \in 0..MaxRenders
  /\ Len(updates) <= 1
  /\ notice.status \in {"none", "styled", "threw"}

----------------------------------------------------------------------------
(* Properties *)

\* C1: the guild-list fetch is issued exactly once per view instance: none
\* before the mount, one from the mount on, and no resolution, rejection or
\* re-render issues another.
C1_FetchIssuedOnce ==
  /\ lifecycle = "constructed" => fetchCount = 0 /\ fetch = "none"
  /\ lifecycle # "constructed" => fetchCount = 1 /\ fetch # "none"

C1_Witness ==
  /\ fetch \in {"resolved", "rejected"}
  /\ lifecycle = "mounted"
  /\ renders >= 3
  /\ fetchCount = 1

\* C2: while the fetch has not resolved, render yields the loading
\* placeholder, and neither the list nor the empty-state message.
C2_LoadingBeforeResolve ==
  fetch \in {"none", "pending"} =>
    /\ render(guilds).kind = "loading"
    /\ render(guilds).text = "Loading servers..."
    /\ render(guilds).items = <<>>
    /\ lifecycle = "mounted" => content = render(guilds)

C2_Witness ==
  /\ fetch = "pending"
  /\ lifecycle = "mounted"
  /\ renders >= 2
  /\ content.text = "Loading servers..."

\* C3: once the fetch has completed, a mounted view shows the empty-state
\* message or the list, never the loading placeholder, whatever the value
\* resolved to.
C3_NoLoadingAfterResolve ==
  (fetch = "resolved" /\ lifecycle = "mounted") =>
    content.kind \in {"empty", "list"}

\* C4: for a non-empty stored list the view shows one item per guild, in the
\* order of the list, each keyed by and linking to '/guild/{id}' of its own
\* guild, so that no item carries an id that is not in the list.
C4_OneItemPerGuild ==
  (lifecycle = "mounted" /\ guilds.t = "array" /\ Len(guilds.v) > 0) =>
    /\ content.kind = "list"
    /\ Len(content.items) = Len(guilds.v)
    /\ \A i \in 1..Len(guilds.v) :
         /\ content.items[i].to = "/guild/" \o guilds.v[i].id
         /\ content.items[i].key = guilds.v[i].id
         /\ content.items[i].guild = guilds.v[i]
    /\ \A i \in 1..Len(content.items) :
         \E j \in 1..Len(guilds.v) : content.items[i].key = guilds.v[j].id

C4_Witness ==
  /\ lifecycle = "mounted"
  /\ guilds.t = "array"
  /\ Len(guilds.v) >= 2
  /\ guilds.v[1].id # guilds.v[2].id
  /\ content.items[2].to = "/guild/" \o guilds.v[2].id

\* C5: when the fetch resolves with an empty list, the mounted view shows
\* 'No servers.', no list item and no loading placeholder.
C5_EmptyList ==
  (fetch = "resolved" /\ response = Arr(<<>>) /\ lifecycle = "mounted") =>
    /\ content.kind = "empty"
    /\ content.text = "No servers."
    /\ content.items = <<>>

C5_Witness ==
  /\ fetch = "resolved"
  /\ response = Arr(<<>>)
  /\ lifecycle = "mounted"
  /\ content.text = "No servers."

\* C6: the state starts at guilds = null and changes at most once: only from
\* null, only in the step that completes the fetch, and to the resolved
\* value; a completed fetch stays completed, so a loaded list is never
\* changed and never returns to null.
C6_SingleTransition ==
  /\ guilds = Null
  /\ [][/\ guilds' # guilds =>
             /\ guilds = Null
             /\ fetch = "pending" /\ fetch' = "resolved"
             /\ guilds' = response'
        /\ fetch = "resolved" => fetch' = "resolved"]_vars

C6_Witness ==
  /\ guilds.t = "array"
  /\ Len(guilds.v) > 0
  /\ lifecycle = "unmounted"
  /\ fetch = "resolved"

\* C7: after a rejected fetch the state is still guilds = null, setState was
\* never called, no second request was issued, the mounted view shows the
\* loading placeholder and nothing else, and this stays so.
C7_RejectedStaysLoading ==
  /\ [](fetch = "rejected" =>
          /\ guilds = Null
          /\ updates = <<>>
          /\ fetchCount = 1
          /\ render(guilds).text = "Loading servers..."
          /\ content.kind \in {"loading", "none"}
          /\ lifecycle = "mounted" => content.kind = "loading")
  /\ [][fetch = "rejected" => fetch' = "rejected"]_vars

C7_Witness ==
  /\ fetch = "rejected"
  /\ lifecycle = "mounted"
  /\ renders >= 2
  /\ content.kind = "loading"

\* C8: for each mood of MOODS the border is the first and the background the
\* second colour of that mood's pair; 'danger' gives the danger pair and an
\* absent mood gives the pair of 'default'.
C8_MoodPair ==
  /\ \A m \in {"default", "danger", "success"} :
       notice.props = Given(Str(m)) =>
         /\ notice.status = "styled"
         /\ notice.border = Str(MOODS[m][1])
         /\ notice.background = Str(MOODS[m][2])
  /\ notice.props = Given(Str("danger")) =>
       /\ notice.border = Str("hsl(0, 100%, 85%)")
       /\ notice.background = Str("hsl(0, 100%, 95%)")
  /\ (notice.status # "none" /\ notice.props = Absent) =>
       /\ notice.status = "styled"
       /\ notice.border = Str("hsl(220, 100%, 85%)")
       /\ notice.background = Str("hsl(220, 100%, 95%)")

C8_Witness ==
  /\ notice.status = "styled"
  /\ notice.props = Given(Str("danger"))

\* C9: a completed fetch always reaches setState with the resolved value,
\* also when the view was unmounted in between: nothing cancels the fetch.
C9_NoCancellation ==
  fetch = "resolved" =>
    /\ Len(updates) = 1
    /\ updates[1].arg = response

C9_Witness ==
  /\ lifecycle = "unmounted"
  /\ fetch = "resolved"
  /\ Len(updates) = 1
  /\ ~updates[1].live

\* a mood that was supplied (not undefined) and is not a key of MOODS
UnknownMood(props) ==
  /\ props.given
  /\ props.mood # Undefined
  /\ KeyOf(props.mood) \notin DOMAIN MOODS

\* C10 as stated: every supplied mood that is not a key of MOODS makes the
\* style lookup fail with an error.
C10_UnknownMoodThrows ==
  UnknownMood(notice.props) => notice.status = "threw"

\* C10 amended: a supplied mood that is not a key of MOODS is never given the
\* default pair; the lookup throws unless the mood names a member inherited
\* from Object.prototype, for which both colours are undefined; an absent or
\* undefined mood is defaulted.
C10_UnknownMoodUnguarded ==
  /\ UnknownMood(notice.props) =>
       /\ ~(notice.status = "styled" /\ notice.border = Str(MOODS["default"][1]))
       /\ KeyOf(notice.props.mood) \notin ObjectPrototypeKeys =>
            notice.status = "threw"
       /\ KeyOf(notice.props.mood) \in ObjectPrototypeKeys =>
            /\ notice.status = "styled"
            /\ notice.border = Undefined
            /\ notice.background = Undefined
  /\ notice.props = Given(Undefined) =>
       /\ notice.status = "styled"
       /\ notice.border = Str(MOODS["default"][1])
       /\ notice.background = Str(MOODS["default"][2])

C10_Witness ==
  /\ notice.props = Given(Null)
  /\ notice.status = "threw"
====
